---- MODULE Spec2Model ----
(***************************************************************************)
(* Model of marvin/status.py: the status-tracking core of the bot.  One    *)
(* issue on the remote tracker carries a label set; webhook deliveries are *)
(* handled by the router handlers and by the /status command handlers.     *)
(* Every handler step is one awaited call (or the synchronous code up to   *)
(* the next await).                                                        *)
(***************************************************************************)
EXTENDS Integers, Sequences, FiniteSets, TLC

\* ---------------------------------------------------------------- bounds
MaxBody == 2            \* longest comment / review body, in tokens
NumUsers == 2           \* user ids 1..NumUsers
MaxInFlight == 2        \* deliveries handled at the same time

\* ------------------------------------------------------------- vocabulary
StatusLabels ==
  {"needs_reviewer", "awaiting_reviewer", "awaiting_changes",
   "needs_merger", "awaiting_merger"}

OtherLabels == {"bug"}

Users == 1..NumUsers
\* The installations with a runner in triage_runner.runners.
Installations == {1, 2}
Tasks == 1..MaxInFlight

NO_SELF_REVIEW_TEXT == "The PR author cannot set the status to needs_merger. Please wait for an external review."

SETTLE_DELAY == 2

\* The triggers registered with command_router.register_command.
Commands ==
  {"/status needs_reviewer", "/status awaiting_changes",
   "/status awaiting_reviewer", "/status needs_merger",
   "/status awaiting_merger"}

\* A body is a sequence of tokens: a registered trigger or other text.
Tokens == Commands \cup {"text"}

\* Python's None for review.body (a review submitted without a body).
None == <<"None">>

RECURSIVE SeqsUpTo(_, _)
SeqsUpTo(S, n) ==
  IF n = 0 THEN {<< >>}
  ELSE LET shorter == SeqsUpTo(S, n - 1)
       IN shorter \cup {Append(s, x) : s \in {q \in shorter : Len(q) = n - 1}, x \in S}

Bodies == SeqsUpTo(Tokens, MaxBody)

ReviewStates == {"approved", "changes_requested", "commented"}

\* command_router.find_commands: the registered triggers occurring in the
\* text, in order of appearance.
RECURSIVE find_commands(_)
find_commands(body) ==
  IF body = << >> THEN << >>
  ELSE IF Head(body) \in Commands
       THEN <<Head(body)>> \o find_commands(Tail(body))
       ELSE find_commands(Tail(body))

\* gh_util.set_issue_status as seen by the remote issue: the exclusive
\* replace of the Status label, other labels untouched.
set_issue_status(ls, status) == (ls \ StatusLabels) \cup {status}

\* ------------------------------------------------------------------ state
VARIABLES
  labels,        \* label names on the remote issue
  author,        \* issue["user"]["id"]
  installation,  \* installation the issue belongs to
  tasks          \* per delivery slot: pc, event, pending commands, calls made

vars == <<labels, author, installation, tasks>>

NoEvent == [type |-> "none", action |-> "none"]

IdleTask == [pc |-> "idle", ev |-> NoEvent, cmds |-> << >>, calls |-> << >>]

\* Outbound calls, as recorded per delivery.
SetCall(status) == [op |-> "set_issue_status", status |-> status]
PostCall == [op |-> "post", body |-> NO_SELF_REVIEW_TEXT]
SleepCall == [op |-> "sleep", secs |-> SETTLE_DELAY]
RunSoonCall(data) == [op |-> "run_soon", runner |-> data.installation.id]

\* The issue / pull_request object of a payload, read from the remote issue
\* when the event is produced.
IssueObject == [user |-> [id |-> author],
                labels |-> {[name |-> l] : l \in labels},
                comments_url |-> "comments_url"]

PullRequestEvents ==
  {[type |-> "pull_request", action |-> a,
    data |-> [pull_request |-> IssueObject,
              sender |-> [id |-> u],
              installation |-> [id |-> installation]]] :
     a \in {"ready_for_review", "synchronize", "assigned", "review_requested"},
     u \in Users}

IssueCommentEvents(bodies) ==
  {[type |-> "issue_comment", action |-> "created",
    data |-> [issue |-> IssueObject,
              comment |-> [body |-> b, user |-> [id |-> u]],
              installation |-> [id |-> installation]]] :
     b \in bodies, u \in Users}

ReviewCommentEvents(bodies) ==
  {[type |-> "pull_request_review_comment", action |-> "created",
    data |-> [pull_request |-> IssueObject,
              comment |-> [body |-> b, user |-> [id |-> u]],
              installation |-> [id |-> installation]]] :
     b \in bodies, u \in Users}

ReviewEvents(bodies) ==
  UNION {{[type |-> "pull_request_review", action |-> "submitted",
           data |-> [pull_request |-> IssueObject,
                     review |-> [body |-> b, state |-> s, user |-> [id |-> u]],
                     installation |-> [id |-> installation]]] :
            b \in bodies \cup {None}, u \in Users} : s \in ReviewStates}

Events(bodies) ==
  PullRequestEvents \cup IssueCommentEvents(bodies)
    \cup ReviewCommentEvents(bodies) \cup ReviewEvents(bodies)

\* Label names of a payload issue: {label["name"] for label in issue["labels"]}
LabelNames(issue) == {l.name : l \in issue.labels}

\* The text the command dispatcher scans, and the comment (or review) it
\* hands to the command handlers.
EventComment(ev) ==
  IF ev.type = "pull_request_review" THEN ev.data.review ELSE ev.data.comment

EventIssue(ev) ==
  IF "issue" \in DOMAIN ev.data THEN ev.data.issue ELSE ev.data.pull_request

EventCommands(ev) ==
  IF ev.type = "pull_request" THEN << >>
  ELSE IF EventComment(ev).body = None THEN << >>
  ELSE find_commands(EventComment(ev).body)

Free(t) == tasks[t].pc = "idle"

\* pc after a handler has returned: the dispatcher runs the next command of
\* the body, if any.
Next_pc(cmds) == IF cmds = << >> THEN "done" ELSE "commands"

Init ==
  /\ labels \in {ls \in SUBSET (StatusLabels \cup OtherLabels) :
                   Cardinality(ls \cap StatusLabels) <= 1}
  \* user ids are only compared: the author is the first user, the others
  \* stand for everybody else
  /\ author = CHOOSE u \in Users : \A v \in Users : u <= v
  /\ installation \in Installations
  /\ tasks = [t \in Tasks |-> IdleTask]

\* A webhook delivery arrives; its payload carries the issue as it is now.
Arrive(t, events) ==
  /\ Free(t)
  /\ \A u \in Tasks : u < t => ~Free(u)
  /\ \E ev \in events :
       tasks' = [tasks EXCEPT ![t] =
                   [pc |-> "router", ev |-> ev,
                    cmds |-> EventCommands(ev), calls |-> << >>]]
  /\ UNCHANGED <<labels, author, installation>>

Deliver(t, bodies) == Arrive(t, Events(bodies))


\* ----------------------------------------------------- handler plumbing
NoCall == "no_call"

\* Mutant: the comparison of the two ids inverted.
by_pr_author_inverted(issue, comment) == issue.user.id # comment.user.id

\* by_pr_author = issue["user"]["id"] == comment["user"]["id"]
by_pr_author(issue, comment) == issue.user.id = comment.user.id

\* The handler returns without a call.
Return(t) ==
  /\ tasks' = [tasks EXCEPT ![t].pc = Next_pc(tasks[t].cmds)]
  /\ UNCHANGED <<labels, author, installation>>

\* Mutant: the handler adds the label and leaves the other Status labels.
AwaitAddLabel(t, status, pc, cmds) ==
  /\ labels' = labels \cup {status}
  /\ tasks' = [tasks EXCEPT ![t].pc = pc, ![t].cmds = cmds,
                            ![t].calls = Append(@, SetCall(status))]
  /\ UNCHANGED <<author, installation>>

\* Mutant: the call is started but not awaited; its effect on the remote
\* issue is not there when the handler goes on.
StartSetIssueStatus(t, status, pc, cmds) ==
  /\ tasks' = [tasks EXCEPT ![t].pc = pc, ![t].cmds = cmds,
                            ![t].calls = Append(@, SetCall(status))]
  /\ UNCHANGED <<labels, author, installation>>

\* Mutant: the label is written only if the remote issue still carries the
\* labels of the payload (an optimistic-concurrency check).
AwaitSetIfUnchanged(t, status, pc, cmds) ==
  /\ labels' = IF labels = LabelNames(EventIssue(tasks[t].ev))
               THEN set_issue_status(labels, status) ELSE labels
  /\ tasks' = [tasks EXCEPT ![t].pc = pc, ![t].cmds = cmds,
                            ![t].calls = Append(@, SetCall(status))]
  /\ UNCHANGED <<author, installation>>

\* Mutant: the other Status labels are removed or else the new one is added,
\* instead of both.
AwaitRemoveOrAdd(t, status, pc, cmds) ==
  /\ labels' = IF (labels \cap StatusLabels) \ {status} # {}
               THEN labels \ (StatusLabels \ {status})
               ELSE labels \cup {status}
  /\ tasks' = [tasks EXCEPT ![t].pc = pc, ![t].cmds = cmds,
                            ![t].calls = Append(@, SetCall(status))]
  /\ UNCHANGED <<author, installation>>

\* await gh_util.set_issue_status(issue, status, gh, token), after which the
\* handler continues at pc (with cmds left to dispatch).
AwaitSetIssueStatus(t, status, pc, cmds) ==
  /\ labels' = set_issue_status(labels, status)
  /\ tasks' = [tasks EXCEPT ![t].pc = pc, ![t].cmds = cmds,
                            ![t].calls = Append(@, SetCall(status))]
  /\ UNCHANGED <<author, installation>>

\* A router handler: at most one set_issue_status call, then it returns.
RouterHandler(t, decision) ==
  IF decision = NoCall
  THEN Return(t)
  ELSE AwaitSetIssueStatus(t, decision, Next_pc(tasks[t].cmds), tasks[t].cmds)

\* ------------------------------------------------------- router handlers
\* Mutant: the guard forgets awaiting_reviewer.
ready_for_review_status_two_labels(data) ==
  LET lbls == LabelNames(data.pull_request)
  IN IF "needs_merger" \notin lbls /\ "awaiting_merger" \notin lbls
     THEN "needs_reviewer"
     ELSE NoCall

ready_for_review_status(data) ==
  LET issue == data.pull_request
      lbls == LabelNames(issue)
  IN IF /\ "needs_merger" \notin lbls
        /\ "awaiting_reviewer" \notin lbls
        /\ "awaiting_merger" \notin lbls
     THEN "needs_reviewer"
     ELSE NoCall

pull_request_ready_for_review(t) ==
  /\ tasks[t].pc = "router"
  /\ tasks[t].ev.type = "pull_request"
  /\ tasks[t].ev.action = "ready_for_review"
  /\ RouterHandler(t, ready_for_review_status(tasks[t].ev.data))

\* Mutant: the guard forgets awaiting_merger.
synchronize_status_two_labels(data) ==
  LET lbls == LabelNames(data.pull_request)
  IN IF "needs_merger" \in lbls \/ "awaiting_changes" \in lbls
     THEN "awaiting_reviewer"
     ELSE NoCall

synchronize_status(data) ==
  LET lbls == LabelNames(data.pull_request)
  IN IF \/ "needs_merger" \in lbls
        \/ "awaiting_changes" \in lbls
        \/ "awaiting_merger" \in lbls
     THEN "awaiting_reviewer"
     ELSE NoCall

pull_request_synchronize(t) ==
  /\ tasks[t].pc = "router"
  /\ tasks[t].ev.type = "pull_request"
  /\ tasks[t].ev.action = "synchronize"
  /\ RouterHandler(t, synchronize_status(tasks[t].ev.data))

\* Mutant: the assignment moves the issue whatever its labels.
assigned_status_unguarded(data) == "awaiting_reviewer"

\* Mutant: an issue without a Status is moved as well.
assigned_status_or_unlabelled(data) ==
  LET lbls == LabelNames(data.pull_request)
  IN IF "needs_reviewer" \in lbls \/ lbls \cap StatusLabels = {}
     THEN "awaiting_reviewer"
     ELSE NoCall

assigned_status(data) ==
  LET lbls == LabelNames(data.pull_request)
  IN IF "needs_reviewer" \in lbls THEN "awaiting_reviewer" ELSE NoCall

\* Mutant: the handler decides on the labels the remote issue carries when it
\* runs, not on those of the payload.
pull_request_assigned_remote_labels(t) ==
  /\ tasks[t].pc = "router"
  /\ tasks[t].ev.type = "pull_request"
  /\ tasks[t].ev.action \in {"assigned", "review_requested"}
  /\ RouterHandler(t, assigned_status([pull_request |-> IssueObject]))

pull_request_assigned(t) ==
  /\ tasks[t].pc = "router"
  /\ tasks[t].ev.type = "pull_request"
  /\ tasks[t].ev.action \in {"assigned", "review_requested"}
  /\ RouterHandler(t, assigned_status(tasks[t].ev.data))

\* Mutant: the automatic handler does not look for commands.
issue_comment_status_no_precedence(data) ==
  LET issue == IF "issue" \in DOMAIN data THEN data.issue ELSE data.pull_request
      by_author == by_pr_author(issue, data.comment)
      lbls == LabelNames(issue)
  IN IF by_author /\ "awaiting_changes" \in lbls
     THEN "awaiting_reviewer"
     ELSE IF ~by_author /\ "needs_reviewer" \in lbls
          THEN "awaiting_reviewer"
          ELSE NoCall

\* Mutant: any comment on an issue that awaits changes counts as the author's.
issue_comment_status_any_commenter(data) ==
  IF Len(find_commands(data.comment.body)) > 0
  THEN NoCall
  ELSE LET issue == IF "issue" \in DOMAIN data
                    THEN data.issue ELSE data.pull_request
           by_author == by_pr_author(issue, data.comment)
           lbls == LabelNames(issue)
       IN IF "awaiting_changes" \in lbls
          THEN "awaiting_reviewer"
          ELSE IF ~by_author /\ "needs_reviewer" \in lbls
               THEN "awaiting_reviewer"
               ELSE NoCall

issue_comment_status(data) ==
  IF Len(find_commands(data.comment.body)) > 0
  THEN NoCall
  ELSE LET issue == IF "issue" \in DOMAIN data
                    THEN data.issue ELSE data.pull_request
           by_author == by_pr_author(issue, data.comment)
           lbls == LabelNames(issue)
       IN IF by_author /\ "awaiting_changes" \in lbls
          THEN "awaiting_reviewer"
          ELSE IF ~by_author /\ "needs_reviewer" \in lbls
               THEN "awaiting_reviewer"
               ELSE NoCall

issue_comment_event(t) ==
  /\ tasks[t].pc = "router"
  /\ tasks[t].ev.type \in {"pull_request_review_comment", "issue_comment"}
  /\ tasks[t].ev.action = "created"
  /\ RouterHandler(t, issue_comment_status(tasks[t].ev.data))

\* Mutant: the needs_reviewer branch is tested before the review state.
review_submitted_status_reviewer_first(data) ==
  IF /\ data.review.body # None
     /\ Len(find_commands(data.review.body)) > 0
  THEN NoCall
  ELSE LET lbls == LabelNames(data.pull_request)
       IN IF by_pr_author(data.pull_request, data.review)
          THEN NoCall
          ELSE IF "needs_reviewer" \in lbls
               THEN "awaiting_reviewer"
               ELSE IF data.review.state = "changes_requested"
                    THEN "awaiting_changes"
                    ELSE NoCall

review_submitted_status(data) ==
  IF /\ data.review.body # None
     /\ Len(find_commands(data.review.body)) > 0
  THEN NoCall
  ELSE LET lbls == LabelNames(data.pull_request)
           issue == data.pull_request
           comment == data.review
       IN IF by_pr_author(issue, comment)
          THEN NoCall
          ELSE IF data.review.state = "changes_requested"
               THEN "awaiting_changes"
               ELSE IF "needs_reviewer" \in lbls
                    THEN "awaiting_reviewer"
                    ELSE NoCall

pull_request_review_submitted(t) ==
  /\ tasks[t].pc = "router"
  /\ tasks[t].ev.type = "pull_request_review"
  /\ tasks[t].ev.action = "submitted"
  /\ RouterHandler(t, review_submitted_status(tasks[t].ev.data))

\* ------------------------------------------------------ command handlers
\* The dispatcher runs the handler bound to the first pending command.
Dispatching(t, trigger) ==
  /\ tasks[t].pc = "commands"
  /\ tasks[t].cmds # << >>
  /\ Head(tasks[t].cmds) = trigger

\* The running command handler has returned.
CommandDone(t, call) ==
  tasks' = [tasks EXCEPT ![t].pc = Next_pc(Tail(tasks[t].cmds)),
                         ![t].cmds = Tail(@),
                         ![t].calls = Append(@, call)]

\* Mutant: the command sets the Status of another command.
needs_reviewer_command_other_status(t) ==
  /\ Dispatching(t, "/status needs_reviewer")
  /\ AwaitSetIssueStatus(t, "awaiting_reviewer", "needs_reviewer_sleep", tasks[t].cmds)

needs_reviewer_command(t) ==
  /\ Dispatching(t, "/status needs_reviewer")
  /\ AwaitSetIssueStatus(t, "needs_reviewer", "needs_reviewer_sleep", tasks[t].cmds)

\* await asyncio.sleep(2)
needs_reviewer_sleep(t) ==
  /\ tasks[t].pc = "needs_reviewer_sleep"
  /\ tasks' = [tasks EXCEPT ![t].pc = "needs_reviewer_run_soon",
                            ![t].calls = Append(@, SleepCall)]
  /\ UNCHANGED <<labels, author, installation>>

\* triage_runner.runners[event.data["installation"]["id"]].run_soon(gh, token)
needs_reviewer_run_soon(t) ==
  /\ tasks[t].pc = "needs_reviewer_run_soon"
  /\ CommandDone(t, RunSoonCall(tasks[t].ev.data))
  /\ UNCHANGED <<labels, author, installation>>

awaiting_changes_command(t) ==
  /\ Dispatching(t, "/status awaiting_changes")
  /\ AwaitSetIssueStatus(t, "awaiting_changes",
                         Next_pc(Tail(tasks[t].cmds)), Tail(tasks[t].cmds))

awaiting_reviewer_command(t) ==
  /\ Dispatching(t, "/status awaiting_reviewer")
  /\ AwaitSetIssueStatus(t, "awaiting_reviewer",
                         Next_pc(Tail(tasks[t].cmds)), Tail(tasks[t].cmds))

\* Mutant: needs_merger without the self-review guard.
needs_merger_command_unguarded(t) ==
  /\ Dispatching(t, "/status needs_merger")
  /\ AwaitSetIssueStatus(t, "needs_merger", "needs_merger_run_soon",
                         tasks[t].cmds)

\* Mutant: the rejection ends the dispatch of the body's commands.
needs_merger_command_blocking(t) ==
  /\ Dispatching(t, "/status needs_merger")
  /\ IF by_pr_author(EventIssue(tasks[t].ev), EventComment(tasks[t].ev))
     THEN /\ tasks' = [tasks EXCEPT ![t].pc = "done", ![t].cmds = << >>,
                                    ![t].calls = Append(@, PostCall)]
          /\ UNCHANGED <<labels, author, installation>>
     ELSE AwaitSetIssueStatus(t, "needs_merger", "needs_merger_run_soon",
                              tasks[t].cmds)

needs_merger_command(t) ==
  /\ Dispatching(t, "/status needs_merger")
  /\ IF by_pr_author(EventIssue(tasks[t].ev), EventComment(tasks[t].ev))
     THEN /\ CommandDone(t, PostCall)
          /\ UNCHANGED <<labels, author, installation>>
     ELSE AwaitSetIssueStatus(t, "needs_merger", "needs_merger_run_soon",
                              tasks[t].cmds)

needs_merger_run_soon(t) ==
  /\ tasks[t].pc = "needs_merger_run_soon"
  /\ CommandDone(t, RunSoonCall(tasks[t].ev.data))
  /\ UNCHANGED <<labels, author, installation>>

\* Mutant: awaiting_merger signals the runner as needs_merger does.
awaiting_merger_command_notifies(t) ==
  /\ Dispatching(t, "/status awaiting_merger")
  /\ IF by_pr_author(EventIssue(tasks[t].ev), EventComment(tasks[t].ev))
     THEN /\ CommandDone(t, PostCall)
          /\ UNCHANGED <<labels, author, installation>>
     ELSE AwaitSetIssueStatus(t, "awaiting_merger", "needs_merger_run_soon",
                              tasks[t].cmds)

\* Mutant: the rejection also takes the Status off the issue.
awaiting_merger_command_clears(t) ==
  /\ Dispatching(t, "/status awaiting_merger")
  /\ IF by_pr_author(EventIssue(tasks[t].ev), EventComment(tasks[t].ev))
     THEN /\ CommandDone(t, PostCall)
          /\ labels' = labels \ StatusLabels
          /\ UNCHANGED <<author, installation>>
     ELSE AwaitSetIssueStatus(t, "awaiting_merger",
                              Next_pc(Tail(tasks[t].cmds)), Tail(tasks[t].cmds))

awaiting_merger_command(t) ==
  /\ Dispatching(t, "/status awaiting_merger")
  /\ IF by_pr_author(EventIssue(tasks[t].ev), EventComment(tasks[t].ev))
     THEN /\ CommandDone(t, PostCall)
          /\ UNCHANGED <<labels, author, installation>>
     ELSE AwaitSetIssueStatus(t, "awaiting_merger",
                              Next_pc(Tail(tasks[t].cmds)), Tail(tasks[t].cmds))

\* The delivery is over: its event is discarded.
Complete(t) ==
  /\ tasks[t].pc = "done"
  /\ tasks' = [tasks EXCEPT ![t] = IdleTask]
  /\ UNCHANGED <<labels, author, installation>>

\* ---------------------------------------------------------- specification
Handle(t) ==
  \/ pull_request_ready_for_review(t)
  \/ pull_request_synchronize(t)
  \/ pull_request_assigned(t)
  \/ issue_comment_event(t)
  \/ pull_request_review_submitted(t)
  \/ needs_reviewer_command(t)
  \/ needs_reviewer_sleep(t)
  \/ needs_reviewer_run_soon(t)
  \/ awaiting_changes_command(t)
  \/ awaiting_reviewer_command(t)
  \/ needs_merger_command(t)
  \/ needs_merger_run_soon(t)
  \/ awaiting_merger_command(t)
  \/ Complete(t)

\* Deliveries are processed one after the other.
DeliverNext(t) ==
  /\ \A u \in Tasks : Free(u)
  /\ Deliver(t, Bodies)

Next == \E t \in Tasks : DeliverNext(t) \/ Handle(t)

Spec == Init /\ [][Next]_vars

\* ------------------------------------------------- vocabulary of the claims
MergerStatuses == {"needs_merger", "awaiting_merger"}

Trigger(status) == "/status " \o status

IsTrigger(x) == x \in Commands
IsMergerTrigger(x) == x \in {Trigger(s) : s \in MergerStatuses}
IsSet(c) == c.op = "set_issue_status"
IsMergerSet(c) == c.op = "set_issue_status" /\ c.status \in MergerStatuses
IsPost(c) == c.op = "post"
IsRunSoon(c) == c.op = "run_soon"

Delivered(t) == tasks[t].pc # "idle"
Finished(t) == tasks[t].pc = "done"
IsCommentEvent(t) ==
  tasks[t].ev.type \in {"issue_comment", "pull_request_review_comment"}
IsReviewEvent(t) == tasks[t].ev.type = "pull_request_review"

\* What the payload of delivery t says.
PayloadIssue(t) ==
  IF tasks[t].ev.type = "issue_comment"
  THEN tasks[t].ev.data.issue ELSE tasks[t].ev.data.pull_request
PayloadLabels(t) == {l.name : l \in PayloadIssue(t).labels}
PayloadStatus(t) == PayloadLabels(t) \cap StatusLabels
ActorId(t) ==
  IF IsReviewEvent(t) THEN tasks[t].ev.data.review.user.id
  ELSE tasks[t].ev.data.comment.user.id
Body(t) ==
  IF IsReviewEvent(t) THEN tasks[t].ev.data.review.body
  ELSE tasks[t].ev.data.comment.body
\* The recognized commands of the body of delivery t, in order.
BodyCommands(t) ==
  IF tasks[t].ev.type = "pull_request" \/ Body(t) = None
  THEN << >>
  ELSE SelectSeq(Body(t), IsTrigger)

Replaced(ls, status) == {l \in ls : l \notin StatusLabels} \cup {status}

\* Status of the trigger "/status <status>".
StatusOf(trigger) == CHOOSE s \in StatusLabels : Trigger(s) = trigger

\* C1: the issue carries at most one of the five Status labels after any
\* sequence of processed deliveries.
C1_AtMostOneStatus == Cardinality(labels \cap StatusLabels) <= 1

\* A delivery replaced one Status by another one.
C1_Witness ==
  \E t \in Tasks :
    /\ Finished(t)
    /\ \E old \in StatusLabels : \E new \in StatusLabels \ {old} :
         /\ old \in PayloadLabels(t)
         /\ tasks[t].calls # << >>
         /\ IsSet(tasks[t].calls[Len(tasks[t].calls)])
         /\ tasks[t].calls[Len(tasks[t].calls)].status = new
         /\ labels \cap StatusLabels = {new}

\* C2: a /status needs_merger or /status awaiting_merger command by the
\* issue author makes no set-status call and posts exactly one comment with
\* the rejection text; by anybody else it sets the requested Status and
\* posts no comment; whatever Status the issue carries.
C2_SelfReviewGuard ==
  \A t \in Tasks :
    (Finished(t) /\ tasks[t].ev.type # "pull_request") =>
      LET cmds == BodyCommands(t)
          mergers == SelectSeq(cmds, IsMergerTrigger)
          posts == SelectSeq(tasks[t].calls, IsPost)
          mergerSets == SelectSeq(tasks[t].calls, IsMergerSet)
      IN IF ActorId(t) = author
         THEN /\ Len(posts) = Len(mergers)
              /\ \A i \in 1..Len(posts) : posts[i].body = NO_SELF_REVIEW_TEXT
              /\ mergerSets = << >>
              /\ (mergers # << >> /\ Len(cmds) = Len(mergers))
                    => labels = PayloadLabels(t)
         ELSE /\ posts = << >>
              /\ mergerSets = [i \in 1..Len(mergers) |-> SetCall(StatusOf(mergers[i]))]
              /\ (mergers # << >> /\ cmds[Len(cmds)] = mergers[Len(mergers)])
                    => labels = Replaced(PayloadLabels(t),
                                         StatusOf(mergers[Len(mergers)]))

\* The author asked for needs_merger on an issue that awaits changes.
C2_Witness ==
  \E t \in Tasks :
    /\ Finished(t)
    /\ IsCommentEvent(t)
    /\ BodyCommands(t) = <<"/status needs_merger">>
    /\ ActorId(t) = author
    /\ "awaiting_changes" \in PayloadLabels(t)
    /\ tasks[t].calls = <<PostCall>>
    /\ labels = PayloadLabels(t)

\* C3: the Status becomes needs_merger (resp. awaiting_merger) only by a
\* /status needs_merger (resp. awaiting_merger) command of an actor other
\* than the issue author: no automatic event and no action of the author
\* produces either status.
C3_MergerOnlyByOthersCommand ==
  [][\A s \in MergerStatuses :
       (s \notin labels /\ s \in labels') =>
         \E t \in Tasks :
           /\ tasks[t].pc = "commands"
           /\ tasks[t].ev.type # "pull_request"
           /\ Head(tasks[t].cmds) = Trigger(s)
           /\ ActorId(t) # author
           /\ tasks'[t].calls = Append(tasks[t].calls, SetCall(s))]_vars

\* Somebody else than the author moved the issue to awaiting_merger.
C3_Witness ==
  \E t \in Tasks :
    /\ Finished(t)
    /\ IsReviewEvent(t)
    /\ ActorId(t) # author
    /\ "awaiting_merger" \notin PayloadLabels(t)
    /\ tasks[t].calls = <<SetCall("awaiting_merger")>>
    /\ "awaiting_merger" \in labels

\* The set_issue_status calls the commands of the body of delivery t make,
\* in order: every command sets its status, but for the two merger commands
\* when the actor is the author.
IsSettingTrigger(t, x) == ~(IsMergerTrigger(x) /\ ActorId(t) = author)

CommandSets(t) ==
  LET cmds == BodyCommands(t)
      setting == SelectSeq(cmds, LAMBDA x : IsSettingTrigger(t, x))
  IN [i \in 1..Len(setting) |-> StatusOf(setting[i])]

SetsMade(t) ==
  LET sets == SelectSeq(tasks[t].calls, IsSet)
  IN [i \in 1..Len(sets) |-> sets[i].status]

\* C4: when the body of a comment or review holds a recognized command, the
\* automatic handler of that event makes no set-status call; a review without
\* a body holds no command and is handled by the automatic table.
C4_CommandPrecedence ==
  \A t \in Tasks :
    (Delivered(t) /\ tasks[t].ev.type # "pull_request") =>
      /\ BodyCommands(t) # << >> =>
           /\ Len(SetsMade(t)) <= Len(CommandSets(t))
           /\ SetsMade(t) = SubSeq(CommandSets(t), 1, Len(SetsMade(t)))
           /\ (tasks[t].pc = "commands" /\ tasks[t].cmds = BodyCommands(t))
                => (tasks[t].calls = << >> /\ labels = PayloadLabels(t))
      /\ (/\ Finished(t)
          /\ IsReviewEvent(t)
          /\ Body(t) = None
          /\ ActorId(t) # author
          /\ \/ tasks[t].ev.data.review.state = "changes_requested"
             \/ "needs_reviewer" \in PayloadLabels(t))
           => Len(SetsMade(t)) = 1

\* The review of somebody else requests changes on an issue that needs a
\* reviewer, its body holds a command, and the automatic handler has returned.
C4_Witness ==
  \E t \in Tasks :
    /\ IsReviewEvent(t)
    /\ ActorId(t) # author
    /\ tasks[t].ev.data.review.state = "changes_requested"
    /\ "needs_reviewer" \in PayloadLabels(t)
    /\ BodyCommands(t) # << >>
    /\ tasks[t].pc = "commands"
    /\ tasks[t].cmds = BodyCommands(t)
    /\ tasks[t].calls = << >>
    /\ labels = PayloadLabels(t)

\* The new statuses of the rows of the transition table that match the
\* event of delivery t.
TableStatuses(t) ==
  LET ev == tasks[t].ev
      ls == PayloadLabels(t)
  IN IF ev.type = "pull_request"
     THEN IF ev.action = "ready_for_review"
          THEN IF ls \cap {"needs_merger", "awaiting_reviewer", "awaiting_merger"} = {}
               THEN {"needs_reviewer"} ELSE {}
          ELSE IF ev.action = "synchronize"
          THEN IF ls \cap {"needs_merger", "awaiting_changes", "awaiting_merger"} # {}
               THEN {"awaiting_reviewer"} ELSE {}
          ELSE IF "needs_reviewer" \in ls THEN {"awaiting_reviewer"} ELSE {}
     ELSE IF IsCommentEvent(t)
     THEN IF \/ ActorId(t) = author /\ "awaiting_changes" \in ls
             \/ ActorId(t) # author /\ "needs_reviewer" \in ls
          THEN {"awaiting_reviewer"} ELSE {}
     ELSE IF ActorId(t) = author THEN {}
          ELSE (IF ev.data.review.state = "changes_requested"
                THEN {"awaiting_changes"} ELSE {})
               \cup (IF "needs_reviewer" \in ls THEN {"awaiting_reviewer"} ELSE {})

\* C5: an automatic handler calls set-status only when a row of the table
\* matches the event and its guard holds on the payload labels, and then with
\* that row's new status; otherwise it makes no set-status call and no comment.
C5_NoInventedTransition ==
  \A t \in Tasks :
    (Finished(t) /\ BodyCommands(t) = << >>) =>
      \/ tasks[t].calls = << >> /\ labels = PayloadLabels(t)
      \/ /\ Len(tasks[t].calls) = 1
         /\ IsSet(tasks[t].calls[1])
         /\ tasks[t].calls[1].status \in TableStatuses(t)
         /\ labels = Replaced(PayloadLabels(t), tasks[t].calls[1].status)

\* A push to an issue that needs a reviewer: no row matches, nothing happens.
C5_Witness ==
  \E t \in Tasks :
    /\ Finished(t)
    /\ tasks[t].ev.type = "pull_request"
    /\ tasks[t].ev.action = "synchronize"
    /\ "needs_reviewer" \in PayloadLabels(t)
    /\ tasks[t].calls = << >>
    /\ "needs_reviewer" \in labels

IsNeedsReviewerTrigger(x) == x = "/status needs_reviewer"
IsNeedsMergerTrigger(x) == x = "/status needs_merger"

\* The commands of the body of delivery t that signal the runner.
NotifyingCommands(t) ==
  SelectSeq(BodyCommands(t),
            LAMBDA x : \/ IsNeedsReviewerTrigger(x)
                       \/ IsNeedsMergerTrigger(x) /\ ActorId(t) # author)

\* C6: a delivery signals the triage runner of the issue's installation if and
\* only if it executed a /status needs_reviewer command or a /status
\* needs_merger command of a non-author, after that command's set-status
\* call; never for an automatic transition, a command blocked by the
\* self-review guard or one of the other three commands.
C6_RunnerSignalledByCommandsOnly ==
  \A t \in Tasks :
    Delivered(t) =>
      LET calls == tasks[t].calls
          signals == SelectSeq(calls, IsRunSoon)
      IN /\ \A i \in 1..Len(calls) :
              IsRunSoon(calls[i]) =>
                /\ calls[i].runner = installation
                /\ \E j \in 1..(i - 1) :
                     /\ IsSet(calls[j])
                     /\ calls[j].status \in {"needs_reviewer", "needs_merger"}
                     /\ \A k \in (j + 1)..(i - 1) : ~IsSet(calls[k]) /\ ~IsRunSoon(calls[k])
         /\ Len(signals) <= Len(NotifyingCommands(t))
         /\ Finished(t) => Len(signals) = Len(NotifyingCommands(t))

\* Somebody else than the author asked for needs_merger and the runner of the
\* installation was signalled.
C6_Witness ==
  \E t \in Tasks :
    /\ Finished(t)
    /\ IsCommentEvent(t)
    /\ BodyCommands(t) = <<"/status needs_merger">>
    /\ ActorId(t) # author
    /\ Len(tasks[t].calls) = 2
    /\ IsSet(tasks[t].calls[1])
    /\ IsRunSoon(tasks[t].calls[2])
    /\ tasks[t].calls[2].runner = installation

\* C7: in the /status needs_reviewer command and in the /status needs_merger
\* command of a non-author, the runner is signalled only after the set-status
\* call has completed and the settle delay has elapsed in between.
C7_SignalAfterSettleDelay ==
  \A t \in Tasks :
    Delivered(t) =>
      \A i \in 1..Len(tasks[t].calls) :
        IsRunSoon(tasks[t].calls[i]) =>
          /\ i >= 3
          /\ tasks[t].calls[i - 1].op = "sleep"
          /\ tasks[t].calls[i - 1].secs = SETTLE_DELAY
          /\ IsSet(tasks[t].calls[i - 2])

\* What a delivery without commands must have done: no call, or the one
\* set-status call that replaces the Status of the payload.
Outcome(t, status) ==
  IF status = NoCall
  THEN tasks[t].calls = << >> /\ labels = PayloadLabels(t)
  ELSE /\ Len(tasks[t].calls) = 1
       /\ IsSet(tasks[t].calls[1])
       /\ tasks[t].calls[1].status = status
       /\ labels = Replaced(PayloadLabels(t), status)

\* C8: a review submitted without a command: by the author, no transition;
\* by somebody else with state changes_requested, awaiting_changes whatever
\* the Status was; by somebody else with another state and needs_reviewer
\* present, awaiting_reviewer; otherwise no transition.
C8_ReviewSubmitted ==
  \A t \in Tasks :
    (Finished(t) /\ IsReviewEvent(t) /\ BodyCommands(t) = << >>) =>
      Outcome(t,
        IF ActorId(t) = author THEN NoCall
        ELSE IF tasks[t].ev.data.review.state = "changes_requested"
             THEN "awaiting_changes"
             ELSE IF "needs_reviewer" \in PayloadLabels(t)
                  THEN "awaiting_reviewer"
                  ELSE NoCall)

\* Changes requested by somebody else on an issue that needs a reviewer.
C8_Witness ==
  \E t \in Tasks :
    /\ Finished(t)
    /\ IsReviewEvent(t)
    /\ BodyCommands(t) = << >>
    /\ ActorId(t) # author
    /\ tasks[t].ev.data.review.state = "changes_requested"
    /\ "needs_reviewer" \in PayloadLabels(t)
    /\ "awaiting_changes" \in labels
    /\ "needs_reviewer" \notin labels

\* C9: a comment created without a command sets awaiting_reviewer exactly
\* when (the commenter is the author and awaiting_changes is present) or
\* (the commenter is not the author and needs_reviewer is present), for the
\* issue of an issue_comment and the pull_request of a review comment alike.
C9_CommentCreated ==
  \A t \in Tasks :
    (Finished(t) /\ IsCommentEvent(t) /\ BodyCommands(t) = << >>) =>
      LET ls == IF tasks[t].ev.type = "issue_comment"
                THEN {l.name : l \in tasks[t].ev.data.issue.labels}
                ELSE {l.name : l \in tasks[t].ev.data.pull_request.labels}
      IN Outcome(t,
           IF \/ ActorId(t) = author /\ "awaiting_changes" \in ls
              \/ ActorId(t) # author /\ "needs_reviewer" \in ls
           THEN "awaiting_reviewer"
           ELSE NoCall)

\* The author commented on the review of a pull request that awaited changes.
C9_Witness ==
  \E t \in Tasks :
    /\ Finished(t)
    /\ tasks[t].ev.type = "pull_request_review_comment"
    /\ BodyCommands(t) = << >>
    /\ ActorId(t) = author
    /\ "awaiting_changes" \in PayloadLabels(t)
    /\ "awaiting_reviewer" \in labels
    /\ "awaiting_changes" \notin labels

\* C10: ready_for_review sets needs_reviewer if and only if none of
\* needs_merger, awaiting_reviewer, awaiting_merger is in the payload labels,
\* and leaves the issue unchanged otherwise.
C10_ReadyForReview ==
  \A t \in Tasks :
    (/\ Finished(t)
     /\ tasks[t].ev.type = "pull_request"
     /\ tasks[t].ev.action = "ready_for_review") =>
      Outcome(t,
        IF /\ "needs_merger" \notin PayloadLabels(t)
           /\ "awaiting_reviewer" \notin PayloadLabels(t)
           /\ "awaiting_merger" \notin PayloadLabels(t)
        THEN "needs_reviewer"
        ELSE NoCall)

\* A pull request that awaited changes was marked ready for review.
C10_Witness ==
  \E t \in Tasks :
    /\ Finished(t)
    /\ tasks[t].ev.type = "pull_request"
    /\ tasks[t].ev.action = "ready_for_review"
    /\ "awaiting_changes" \in PayloadLabels(t)
    /\ labels \cap StatusLabels = {"needs_reviewer"}

\* ------------------------------------------------------ process teardown
\* A delivery between its arrival and its last step.
InFlight(t) == tasks[t].pc \notin {"idle", "done", "torn_down", "error"}

\* The process is torn down: every delivery in flight stops where it is.
TearDown ==
  /\ \E t \in Tasks : InFlight(t)
  /\ tasks' = [t \in Tasks |->
                 IF InFlight(t) THEN [tasks[t] EXCEPT !.pc = "torn_down"]
                 ELSE tasks[t]]
  /\ UNCHANGED <<labels, author, installation>>

\* The process is started again; what the torn deliveries held is lost.
Restart ==
  /\ \E t \in Tasks : tasks[t].pc = "torn_down"
  /\ tasks' = [t \in Tasks |->
                 IF tasks[t].pc = "torn_down" THEN IdleTask ELSE tasks[t]]
  /\ UNCHANGED <<labels, author, installation>>

NextTeardown == Next \/ TearDown \/ Restart

SpecTeardown == Init /\ [][NextTeardown]_vars

TornDown(t) == tasks[t].pc = "torn_down"

\* C11 as stated: after a teardown in the middle of a delivery the remote
\* state and the notifier are as if the delivery had never been received
\* (no label changed, no comment posted, no runner signalled).
C11_TeardownLeavesNoTrace ==
  \A t \in Tasks :
    TornDown(t) =>
      /\ labels = PayloadLabels(t)
      /\ \A i \in 1..Len(tasks[t].calls) :
           ~IsPost(tasks[t].calls[i]) /\ ~IsRunSoon(tasks[t].calls[i])

\* C11 (amended): after a teardown in the middle of a delivery the remote
\* labels are those left by the set-status calls that completed before it
\* (the payload labels when none did): the delivery is as if never received
\* only when it was torn down before its first call.
C11_TeardownKeepsCompletedCalls ==
  \A t \in Tasks :
    TornDown(t) =>
      /\ SetsMade(t) = << >> => labels = PayloadLabels(t)
      /\ SetsMade(t) # << >> =>
           labels = Replaced(PayloadLabels(t), SetsMade(t)[Len(SetsMade(t))])
      /\ tasks[t].calls = << >> => labels = PayloadLabels(t)

\* Torn down in the settle delay of /status needs_reviewer: the Status has
\* changed and the runner was not signalled.
C11_Witness ==
  \E t \in Tasks :
    /\ TornDown(t)
    /\ BodyCommands(t) = <<"/status needs_reviewer">>
    /\ "awaiting_changes" \in PayloadLabels(t)
    /\ tasks[t].calls = <<SetCall("needs_reviewer")>>
    /\ labels \cap StatusLabels = {"needs_reviewer"}

\* -------------------------------------------------- concurrent deliveries
\* Two deliveries for the issue are handled at the same time, in the first
\* two slots: one arrives when nothing is in flight, the other one after it.
\* The events are those of the issue's pull request, comments with at most
\* one command and reviews without a body text.
ShortBodies == {<< >>} \cup {<<x>> : x \in Commands}

ConcurrentEvents ==
  {ev \in Events(ShortBodies) :
     \/ ev.type = "pull_request" /\ ev.data.sender.id = author
     \/ ev.type = "issue_comment"
     \/ /\ ev.type = "pull_request_review"
        /\ ev.data.review.body = << >>
        /\ ev.data.review.state \in {"approved", "changes_requested"}}

DeliverConcurrently(t) ==
  /\ t \in {1, 2}
  /\ t = 1 => \A u \in Tasks : Free(u)
  /\ Arrive(t, ConcurrentEvents)

NextConcurrent == \E t \in Tasks : DeliverConcurrently(t) \/ Handle(t)

SpecConcurrent == Init /\ [][NextConcurrent]_vars

LastSet(t) == SetsMade(t)[Len(SetsMade(t))]

\* C12 as stated: of two deliveries handled concurrently that both write a
\* Status, the one delivered last (the second slot) decides the final Status.
C12_LastDeliveredWins ==
  (/\ Finished(1) /\ Finished(2)
   /\ SetsMade(1) # << >> /\ SetsMade(2) # << >>)
    => labels \cap StatusLabels = {LastSet(2)}

\* C12 (amended): the Status is always the one written by the set-status call
\* that completed last, whichever delivery made it: every completed call
\* overwrites the Status, and nothing else changes the labels.
C12_LastCompletedCallWins ==
  [][/\ \A t \in Tasks : \A s \in StatusLabels :
          tasks'[t].calls = Append(tasks[t].calls, SetCall(s))
            => labels' = Replaced(labels, s)
     /\ labels' # labels =>
          \E t \in Tasks : \E s \in StatusLabels :
            tasks'[t].calls = Append(tasks[t].calls, SetCall(s))]_vars

\* Both deliveries wrote a Status and the one delivered first decided.
C12_Witness ==
  /\ Finished(1) /\ Finished(2)
  /\ SetsMade(1) # << >> /\ SetsMade(2) # << >>
  /\ LastSet(1) # LastSet(2)
  /\ labels \cap StatusLabels = {LastSet(1)}

\* ------------------------------------------------------- failing calls
\* The status the router handler of the event sets, or NoCall.
RouterStatus(ev) ==
  IF ev.type = "pull_request"
  THEN IF ev.action = "ready_for_review" THEN ready_for_review_status(ev.data)
       ELSE IF ev.action = "synchronize" THEN synchronize_status(ev.data)
       ELSE assigned_status(ev.data)
  ELSE IF ev.type = "pull_request_review" THEN review_submitted_status(ev.data)
  ELSE issue_comment_status(ev.data)

\* The call delivery t is about to make, "none" when its next step makes no
\* call that can fail: set_issue_status and gh.post are requests to the
\* remote API, runners[...] is the lookup of the installation's runner.
PendingCall(t) ==
  IF tasks[t].pc = "router"
  THEN IF RouterStatus(tasks[t].ev) = NoCall THEN "none" ELSE "set_issue_status"
  ELSE IF tasks[t].pc = "commands"
  THEN IF /\ Head(tasks[t].cmds) \in {"/status needs_merger", "/status awaiting_merger"}
          /\ by_pr_author(EventIssue(tasks[t].ev), EventComment(tasks[t].ev))
       THEN "post" ELSE "set_issue_status"
  ELSE IF tasks[t].pc \in {"needs_reviewer_run_soon", "needs_merger_run_soon"}
  THEN "runners"
  ELSE "none"

RaiseCall(call) == [op |-> "raise", call |-> call]

\* Mutant: the handler catches the exception and goes on.
RaiseSwallowed(t) ==
  /\ PendingCall(t) # "none"
  /\ Len(tasks[t].calls) < 2 * MaxBody + 2
  /\ tasks' = [tasks EXCEPT ![t].calls = Append(@, RaiseCall(PendingCall(t)))]
  /\ UNCHANGED <<labels, author, installation>>

\* The pending call fails: no handler catches the exception, the delivery
\* ends with it and the call has had no effect.
Raise(t) ==
  /\ PendingCall(t) # "none"
  /\ tasks' = [tasks EXCEPT ![t].pc = "error",
                            ![t].calls = Append(@, RaiseCall(PendingCall(t)))]
  /\ UNCHANGED <<labels, author, installation>>

\* The error has been reported to the caller of the dispatch.
Reported(t) ==
  /\ tasks[t].pc = "error"
  /\ tasks' = [tasks EXCEPT ![t] = IdleTask]
  /\ UNCHANGED <<labels, author, installation>>

NextFailure == Next \/ \E t \in Tasks : Raise(t) \/ Reported(t)

SpecFailure == Init /\ [][NextFailure]_vars

IsRaise(c) == c.op = "raise"
Failed(t) == tasks[t].pc = "error"

\* C13: a failure of set-status, of the rejection comment or of the runner
\* lookup ends the delivery in an error: the failed call is the last thing
\* the delivery did (no retry, no later step, no signal after a failed
\* set-status), it had no effect on the labels, and the delivery does not
\* complete normally.
C13_FailuresPropagate ==
  \A t \in Tasks :
    /\ \A i \in 1..Len(tasks[t].calls) :
         IsRaise(tasks[t].calls[i]) => (i = Len(tasks[t].calls) /\ Failed(t))
    /\ Failed(t) =>
         /\ tasks[t].calls # << >>
         /\ IsRaise(tasks[t].calls[Len(tasks[t].calls)])
         /\ labels = IF SetsMade(t) = << >> THEN PayloadLabels(t)
                     ELSE Replaced(PayloadLabels(t), LastSet(t))

\* The set-status call of a non-author's /status needs_merger failed: the
\* delivery ended there, without a signal.
C13_Witness ==
  \E t \in Tasks :
    /\ Failed(t)
    /\ BodyCommands(t) = <<"/status needs_merger">>
    /\ ActorId(t) # author
    /\ tasks[t].calls = <<RaiseCall("set_issue_status")>>
    /\ labels = PayloadLabels(t)

\* ---------------------------------------------------- duplicate deliveries
\* The redelivery of an event, as recorded among the calls: what the labels
\* were when the first processing was over.
RedeliveredMark(ls) == [op |-> "redelivered", labels |-> ls]
IsRedelivered(c) == c.op = "redelivered"

\* The delivery that has just been processed arrives once more, with the
\* identical payload, before any other delivery.
Redeliver(t) ==
  /\ tasks[t].pc = "done"
  /\ \A i \in 1..Len(tasks[t].calls) : ~IsRedelivered(tasks[t].calls[i])
  /\ tasks' = [tasks EXCEPT ![t].pc = "router",
                            ![t].cmds = EventCommands(tasks[t].ev),
                            ![t].calls = Append(@, RedeliveredMark(labels))]
  /\ UNCHANGED <<labels, author, installation>>

NextDuplicate == Next \/ \E t \in Tasks : Redeliver(t)

SpecDuplicate == Init /\ [][NextDuplicate]_vars

\* Where the second processing starts in the calls of delivery t (0: the
\* delivery has arrived once).
MarkAt(t) ==
  LET marks == {i \in 1..Len(tasks[t].calls) : IsRedelivered(tasks[t].calls[i])}
  IN IF marks = {} THEN 0 ELSE CHOOSE i \in marks : TRUE

\* C14: processing the identical payload twice in a row leaves the issue
\* with the labels it had after processing it once.
C14_DuplicateDeliverySafe ==
  \A t \in Tasks :
    (Finished(t) /\ MarkAt(t) > 0) => labels = tasks[t].calls[MarkAt(t)].labels

\* A body with two commands was processed twice: four set-status calls.
C14_Witness ==
  \E t \in Tasks :
    /\ Finished(t)
    /\ MarkAt(t) > 0
    /\ BodyCommands(t) = <<"/status awaiting_changes", "/status needs_reviewer">>
    /\ "awaiting_reviewer" \in PayloadLabels(t)
    /\ Len(SetsMade(t)) = 4
    /\ labels \cap StatusLabels = {"needs_reviewer"}

\* ------------------------------------------------------------ C15 .. C19
\* C15: synchronize sets awaiting_reviewer if and only if needs_merger,
\* awaiting_changes or awaiting_merger is in the payload labels, whoever
\* pushed; needs_reviewer, awaiting_reviewer and no Status are left alone.
C15_Synchronize ==
  \A t \in Tasks :
    (/\ Finished(t)
     /\ tasks[t].ev.type = "pull_request"
     /\ tasks[t].ev.action = "synchronize") =>
      Outcome(t,
        IF PayloadLabels(t) \cap {"needs_merger", "awaiting_changes", "awaiting_merger"} # {}
        THEN "awaiting_reviewer"
        ELSE NoCall)

\* The author pushed to a pull request that awaited its merger.
C15_Witness ==
  \E t \in Tasks :
    /\ Finished(t)
    /\ tasks[t].ev.type = "pull_request"
    /\ tasks[t].ev.action = "synchronize"
    /\ tasks[t].ev.data.sender.id = author
    /\ "awaiting_merger" \in PayloadLabels(t)
    /\ labels \cap StatusLabels = {"awaiting_reviewer"}

\* C16: assigned and review_requested behave alike: each sets
\* awaiting_reviewer if and only if needs_reviewer is in the payload labels.
C16_AssignedOrReviewRequested ==
  \A t \in Tasks :
    (/\ Finished(t)
     /\ tasks[t].ev.type = "pull_request"
     /\ tasks[t].ev.action \in {"assigned", "review_requested"}) =>
      Outcome(t, IF "needs_reviewer" \in PayloadLabels(t)
                 THEN "awaiting_reviewer" ELSE NoCall)

\* A review was requested on a pull request that needed a reviewer.
C16_Witness ==
  \E t \in Tasks :
    /\ Finished(t)
    /\ tasks[t].ev.type = "pull_request"
    /\ tasks[t].ev.action = "review_requested"
    /\ "needs_reviewer" \in PayloadLabels(t)
    /\ labels \cap StatusLabels = {"awaiting_reviewer"}

\* C17: the two commands of a body run one after the other, each on its own:
\* the set-status calls made are those of the commands that are not blocked,
\* in order of appearance, a blocked command posts its comment, and the final
\* Status is the one of the last command that made a set-status call.
C17_TwoCommands ==
  \A t \in Tasks :
    (Finished(t) /\ Len(BodyCommands(t)) = 2) =>
      /\ SetsMade(t) = CommandSets(t)
      /\ Len(SelectSeq(tasks[t].calls, IsPost))
           = Len(BodyCommands(t)) - Len(CommandSets(t))
      /\ labels = IF CommandSets(t) = << >> THEN PayloadLabels(t)
                  ELSE Replaced(PayloadLabels(t), CommandSets(t)[Len(CommandSets(t))])

\* The author asked for awaiting_changes and then for needs_merger: the
\* second command was rejected and the first one's Status stays.
C17_Witness ==
  \E t \in Tasks :
    /\ Finished(t)
    /\ BodyCommands(t) = <<"/status awaiting_changes", "/status needs_merger">>
    /\ ActorId(t) = author
    /\ "needs_reviewer" \in PayloadLabels(t)
    /\ tasks[t].calls = <<SetCall("awaiting_changes"), PostCall>>
    /\ labels \cap StatusLabels = {"awaiting_changes"}

\* The calls of the first and of the second processing of delivery t.
FirstRun(t) == SubSeq(tasks[t].calls, 1, MarkAt(t) - 1)
SecondRun(t) == SubSeq(tasks[t].calls, MarkAt(t) + 1, Len(tasks[t].calls))

\* C18: what is done for a delivery depends on its payload only: the same
\* payload processed again, after the remote labels have changed, leads to
\* the same calls as the first time.
C18_Stateless ==
  \A t \in Tasks :
    (Finished(t) /\ MarkAt(t) > 0) => SecondRun(t) = FirstRun(t)

\* An assignment moved the issue off needs_reviewer; processed again with the
\* same payload, it made the same call although the label was gone.
C18_Witness ==
  \E t \in Tasks :
    /\ Finished(t)
    /\ MarkAt(t) > 0
    /\ tasks[t].ev.type = "pull_request"
    /\ tasks[t].ev.action = "assigned"
    /\ "needs_reviewer" \in PayloadLabels(t)
    /\ "needs_reviewer" \notin tasks[t].calls[MarkAt(t)].labels
    /\ FirstRun(t) = <<SetCall("awaiting_reviewer")>>
    /\ SecondRun(t) = <<SetCall("awaiting_reviewer")>>

\* C19: once the issue carries a Status label, it carries exactly one after
\* every step: no handler removes a Status without setting another.
C19_StatusNeverRemoved ==
  [][Cardinality(labels \cap StatusLabels) = 1
       => Cardinality(labels' \cap StatusLabels) = 1]_vars

\* An issue with a Status went through a body of two commands, one of them
\* rejected, and carries one Status.
C19_Witness ==
  \E t \in Tasks :
    /\ Finished(t)
    /\ IsCommentEvent(t)
    /\ PayloadLabels(t) \cap StatusLabels = {"needs_merger"}
    /\ ActorId(t) = author
    /\ BodyCommands(t) = <<"/status awaiting_merger", "/status awaiting_changes">>
    /\ labels \cap StatusLabels = {"awaiting_changes"}

\* C20 as stated: when a /status needs_reviewer command is about to signal
\* the runner, the Status is needs_reviewer, also with another delivery
\* handled concurrently.
C20_SignalSeesNeedsReviewer ==
  \A t \in Tasks :
    tasks[t].pc = "needs_reviewer_run_soon" => "needs_reviewer" \in labels

\* C20 (amended): the Status is needs_reviewer from the command's set-status
\* call to its signal unless a set-status call of another delivery replaces
\* it in between.
C20_NeedsReviewerUnlessOverwritten ==
  [][\A t \in Tasks :
       /\ (tasks[t].pc = "commands" /\ tasks'[t].pc = "needs_reviewer_sleep")
            => "needs_reviewer" \in labels'
       /\ (/\ tasks[t].pc \in {"needs_reviewer_sleep", "needs_reviewer_run_soon"}
           /\ "needs_reviewer" \in labels
           /\ "needs_reviewer" \notin labels')
            => \E u \in Tasks \ {t} : \E s \in StatusLabels \ {"needs_reviewer"} :
                 tasks'[u].calls = Append(tasks[u].calls, SetCall(s))]_vars

\* The command has signalled the runner while another delivery was in
\* flight, and the Status is needs_reviewer.
C20_Witness ==
  /\ Finished(1)
  /\ BodyCommands(1) = <<"/status needs_reviewer">>
  /\ Len(tasks[1].calls) = 3
  /\ IsRunSoon(tasks[1].calls[3])
  /\ tasks[2].pc = "router"
  /\ "needs_reviewer" \in PayloadLabels(2)
  /\ "needs_reviewer" \in labels

====
